---- MODULE Spec2Model ----
(***************************************************************************)
(* Model of demo/action_predictor.py: the AVAPredictorWorker (sliding      *)
(* window, interval scheduler, realtime / batch prediction loop, queues    *)
(* and flags) and the feature cache of AVAPredictor it drives.             *)
(*                                                                         *)
(* The neural network, the detector and the transforms are opaque: a       *)
(* feature is represented by the cache key it is stored under, a           *)
(* prediction by the key it was scored for, and a detector / update        *)
(* failure by a nondeterministic outcome of the firing cycle.              *)
(***************************************************************************)
EXTENDS Integers, Sequences, FiniteSets

(* ------------------------------ configuration ------------------------- *)
\* ava_cfg.INPUT.FRAME_NUM and ava_cfg.INPUT.FRAME_SAMPLE_RATE (line 197)
FRAME_NUM == 3
FRAME_SAMPLE_RATE == 1
\* cfg.detect_rate (line 204); interval = 1000 // detect_rate
detect_rate == 500

\* the configuration of the scenario: a window of four frames and a
\* detection rate of 25 per second (interval 40 ms)
ScenarioFrameNum == 4
ScenarioDetectRate == 25

(* ------------------------------ model bounds -------------------------- *)
\* largest timestamp (cur_millis) the producer hands in
MaxMilli == 6
\* capacity of the inbound queue in the model (mp.Queue(maxsize=512))
MaxQueue == 1
\* number of deferred passes the caller asks for
MaxFlushes == 2
\* how far a timestamp may fall behind the one handed in before it
MaxJitter == 1
\* number of stop() / terminate() calls that return
MaxStops == 2

VARIABLES
    realtime,               \* self.realtime
    frame_buffer_numbers,   \* self.frame_buffer_numbers
    interval,               \* self.interval
    input_queue,            \* self.input_queue
    output_queue,           \* self.output_queue
    frame_stack,            \* self.frame_stack
    extra_stack,            \* self.extra_stack
    timestamps,             \* self.timestamps (the pending firing records)
    last_milli,             \* self.last_milli
    mem_pool,               \* ava_predictor.mem_pool / object_pool: keys present
    predictor_timestamps,   \* ava_predictor.timestamps: keys in write order
    stopped,                \* self._stopped.value
    task_done,              \* self._task_done.value
    empty_flag,             \* local empty_flag of _compute_prediction
    pc,                     \* position of the worker process in its loop
    fault,                  \* exception that ended the worker process, or "none"
    main_pc,                \* position of the control thread
    stop_returns,           \* stop() calls that have returned so far
    sent_millis,            \* cur_millis of the last frame handed to add_task
    sent_done,              \* the producer has handed in "Done"
    call_result,            \* outcome of the last compute_prediction() call
    read_result,            \* value returned by the last read()
    out_log                 \* every value put on the outbound queue, in order

vars == <<realtime, frame_buffer_numbers, interval, input_queue, output_queue,
          frame_stack, extra_stack, timestamps, last_milli, mem_pool,
          predictor_timestamps, stopped, task_done, empty_flag, pc, fault,
          main_pc, stop_returns, sent_millis, sent_done, call_result,
          read_result, out_log>>

(* ------------------------------ values -------------------------------- *)
Millis == 0 .. MaxMilli

\* (extra, video_size) with extra = (frame, cur_millis, boxes, scores, ids);
\* the frame and the person ids are represented by the instant the frame was
\* taken at, the person boxes by whether there are any.
FrameTask(t, b) ==
    [kind |-> "frame", frame |-> t, millis |-> t, boxes |-> b, ids |-> t]
\* (extra, video_size) with extra = "Done"
DoneTask ==
    [kind |-> "Done", frame |-> 0, millis |-> 0, boxes |-> FALSE, ids |-> 0]

NoResult == [kind |-> "None", pred |-> 0, ts |-> 0, ids |-> 0]
DoneMarker == [kind |-> "done", pred |-> 0, ts |-> 0, ids |-> 0]
Result(p, t, i) == [kind |-> "result", pred |-> p, ts |-> t, ids |-> i]

Extra(t, b, i) == [millis |-> t, boxes |-> b, ids |-> i]
Record(t, i) == [ts |-> t, ids |-> i]

(* ------------------------------ pure helpers -------------------------- *)
\* (variant: the trim to the last n elements left out)
LastNUntrimmed(stack, n) == stack

\* stack[-n:] of Python: the last n elements, and the whole list when n = 0
LastN(stack, n) ==
    IF n = 0 \/ Len(stack) <= n THEN stack
    ELSE SubSeq(stack, Len(stack) - n + 1, Len(stack))

\* 1000 // detect_rate
IntervalOf(rate) == 1000 \div rate

\* (variant: the threshold compared with >= instead of >)
ShouldFireAtThreshold(len, cur_millis, last, itv, capacity) ==
    len >= capacity /\ cur_millis >= last + itv

\* (variant: the interval left out of the threshold)
ShouldFireNoInterval(len, cur_millis, last, itv, capacity) ==
    len >= capacity /\ cur_millis > last

\* the condition of "Predict action once per interval"
ShouldFire(len, cur_millis, last, itv, capacity) ==
    len >= capacity /\ cur_millis > last + itv

\* (variant: the newest entry of the window taken as its center)
CenterIndexLast(capacity) == capacity - 1

\* center_index = frame_buffer_numbers // 2 (0-based in the code)
CenterIndex(capacity) == capacity \div 2

\* the cache key of a center timestamp: center_timestamp // self.interval
Bucket(center_timestamp, itv) == center_timestamp \div itv

\* (variant: the empty-detection check left out)
NoPersonsNever(boxes) == FALSE

\* person_boxes is None or len(person_boxes) == 0
NoPersons(boxes) == ~boxes

\* AVAPredictor.update_feature: mem_pool["SingleVideo", timestamp] = feature
PoolAfterUpdate(pool, key) == pool \cup {key}

\* AVAPredictor.compute_prediction: mem_pool["SingleVideo", timestamp] must exist
ScoreFound(pool, key) == key \in pool

(* ------------------------------ initial state ------------------------- *)
Init ==
    /\ realtime \in BOOLEAN
    /\ frame_buffer_numbers = FRAME_NUM * FRAME_SAMPLE_RATE
    /\ interval = IntervalOf(detect_rate)
    /\ input_queue = <<>>
    /\ output_queue = <<>>
    /\ frame_stack = <<>>
    /\ extra_stack = <<>>
    /\ timestamps = <<>>
    /\ last_milli = 0
    /\ mem_pool = {}
    /\ predictor_timestamps = <<>>
    /\ stopped = FALSE
    /\ task_done = FALSE
    /\ empty_flag = FALSE
    /\ pc = "top"
    /\ fault = "none"
    /\ main_pc = "idle"
    /\ stop_returns = 0
    /\ sent_millis = 0
    /\ sent_done = FALSE
    /\ call_result = "none"
    /\ read_result = NoResult
    /\ out_log = <<>>

cfgVars == <<realtime, frame_buffer_numbers, interval>>
poolVars == <<mem_pool, predictor_timestamps>>
workerVars == <<frame_stack, extra_stack, timestamps, last_milli, mem_pool,
                predictor_timestamps, empty_flag, pc, fault>>
apiVars == <<main_pc, stop_returns, sent_millis, sent_done, call_result,
             read_result>>


(* ------------------------------ caller-side API ----------------------- *)
\* (variant: add_task without its check of the stop flag)
PutAllowedAlways(stp) == TRUE

\* add_task: "if not self.stopped"
PutAllowed(stp) == ~stp

\* add_task(extra, video_size): put unless stopped; put() blocks while the
\* bounded queue is full
AddTask(task) ==
    /\ PutAllowed(stopped)
    /\ Len(input_queue) < MaxQueue
    /\ input_queue' = Append(input_queue, task)
    /\ UNCHANGED <<cfgVars, output_queue, workerVars, stopped, task_done,
                   main_pc, stop_returns, call_result, read_result, out_log>>

\* the producer hands in the frames of one video, each with its timestamp
\* and person boxes, and "Done" after the last one; the timestamp of a frame
\* is at most `jitter` behind that of the frame before it
AddFrameWithin(jitter) ==
    /\ ~sent_done
    /\ \E t \in Millis, b \in BOOLEAN :
        /\ t + jitter >= sent_millis
        /\ AddTask(FrameTask(t, b))
        /\ sent_millis' = t
    /\ UNCHANGED sent_done

\* frames in the order they were taken
AddFrame == AddFrameWithin(0)

\* frames in the order they were taken, at a fixed frame period
AddFrameAt(period) ==
    /\ ~sent_done
    /\ \E t \in Millis, b \in BOOLEAN :
        /\ t >= sent_millis
        /\ t % period = 0
        /\ AddTask(FrameTask(t, b))
        /\ sent_millis' = t
    /\ UNCHANGED sent_done

\* frames one millisecond further apart than the detection interval
AddFramePeriodic == AddFrameAt(interval + 1)

\* the timestamps of the frames the scenario hands in, in this order
ScenarioMillis == {0, 10, 20, 30, 40, 50}

\* the scenario's producer: the next frame of the scenario, with or without
\* person boxes
AddFrameScenario ==
    /\ ~sent_done
    /\ \E t \in ScenarioMillis, b \in BOOLEAN :
        /\ t > sent_millis
        /\ \A u \in ScenarioMillis : u > sent_millis => t <= u
        /\ AddTask(FrameTask(t, b))
        /\ sent_millis' = t
    /\ UNCHANGED sent_done

\* frames whose timestamps the caller of add_task lets run backwards
AddFrameJitter == AddFrameWithin(MaxJitter)

AddDone ==
    /\ ~sent_done
    /\ AddTask(DoneTask)
    /\ sent_done' = TRUE
    /\ UNCHANGED sent_millis

\* number of "done" markers among the values put on the outbound queue
RECURSIVE DoneCount(_)
DoneCount(log) ==
    IF log = <<>> THEN 0
    ELSE (IF Head(log).kind = "done" THEN 1 ELSE 0) + DoneCount(Tail(log))

\* (variant: the flag set before the mode is asserted)
TaskDoneSetFirst(rt, done) == TRUE

\* compute_prediction(): the assertion, then self._task_done.value = True
TaskDoneAfterCall(rt, done) == IF rt THEN done ELSE TRUE

ComputePrediction ==
    /\ DoneCount(out_log) < MaxFlushes
    /\ call_result' = IF realtime THEN "AssertionError" ELSE "ok"
    /\ task_done' = TaskDoneAfterCall(realtime, task_done)
    /\ UNCHANGED <<cfgVars, input_queue, output_queue, workerVars, stopped,
                   main_pc, stop_returns, sent_millis, sent_done,
                   read_result, out_log>>

\* terminate(): self._stopped.value = True, then stop() (which joins first)
Terminate ==
    /\ main_pc = "idle"
    /\ stop_returns < MaxStops
    /\ stopped' = TRUE
    /\ main_pc' = "joining"
    /\ UNCHANGED <<cfgVars, input_queue, output_queue, workerVars, task_done,
                   stop_returns, sent_millis, sent_done, call_result,
                   read_result, out_log>>

\* stop(): starts with prediction_worker.join()
Stop ==
    /\ main_pc = "idle"
    /\ stop_returns < MaxStops
    /\ main_pc' = "joining"
    /\ UNCHANGED <<cfgVars, input_queue, output_queue, workerVars, stopped,
                   task_done, stop_returns, sent_millis, sent_done,
                   call_result, read_result, out_log>>

\* join() returns once the worker process has ended; clear_queues() then
\* empties the inbound queue
JoinReturns ==
    /\ main_pc = "joining"
    /\ pc \in {"exited", "crashed"}
    /\ input_queue' = <<>>
    /\ main_pc' = "idle"
    /\ stop_returns' = stop_returns + 1
    /\ UNCHANGED <<cfgVars, output_queue, workerVars, stopped, task_done,
                   sent_millis, sent_done, call_result,
                   read_result, out_log>>

\* (variant: the newest value handed out instead of the oldest)
GetNowaitNewest(queue) == queue[Len(queue)]

\* the value get_nowait() takes off a queue that is not empty
GetNowait(queue) == Head(queue)

\* read(): None when stopped, else output_queue.get_nowait() or None
Read ==
    /\ IF stopped \/ output_queue = <<>>
          THEN /\ read_result' = NoResult
               /\ UNCHANGED output_queue
          ELSE /\ read_result' = GetNowait(output_queue)
               /\ output_queue' = Tail(output_queue)
    /\ UNCHANGED <<cfgVars, input_queue, workerVars, stopped, task_done,
                   main_pc, stop_returns, sent_millis, sent_done,
                   call_result, out_log>>

(* ------------------------------ worker loop --------------------------- *)
\* the keys the worker hands to update_feature and to compute_prediction
UpdateKey(center_timestamp, itv) == Bucket(center_timestamp, itv)
RealtimeScoreKey(center_timestamp, itv) == Bucket(center_timestamp, itv)
\* (variant: the deferred pass scoring the raw center timestamp)
FlushScoreKeyRaw(center_timestamp, itv) == center_timestamp
FlushScoreKey(center_timestamp, itv) == Bucket(center_timestamp, itv)

\* (variant: a loop top that never starts a flush)
FlushDueNever(done, empty) == FALSE

\* (variant: the flush started by compute_prediction() alone)
FlushDueOnTaskDone(done, empty) == done

\* loop top: "if self.task_done and empty_flag"
FlushDue(done, empty) == done /\ empty

\* (variant: the loop top without its check of the stop flag)
SeesStopNever(stp) == FALSE

\* the worker's reading of the stop flag at the loop top
SeesStop(stp) == stp

\* loop top: "if self.stopped: return"
WorkerStopped ==
    /\ pc = "top"
    /\ SeesStop(stopped)
    /\ pc' = "exited"
    /\ UNCHANGED <<cfgVars, input_queue, output_queue, frame_stack,
                   extra_stack, timestamps, last_milli, poolVars, stopped,
                   task_done, empty_flag, fault, apiVars, out_log>>

\* number of leading firing records whose cache key the pool holds: the
\* for loop of the flush scores these and dies with KeyError on the next
RECURSIVE Scorable(_, _, _)
Scorable(recs, pool, itv) ==
    IF recs = <<>> THEN 0
    ELSE IF ScoreFound(pool, FlushScoreKey(Head(recs).ts, itv))
         THEN 1 + Scorable(Tail(recs), pool, itv)
         ELSE 0

\* (variant: the firing records walked from the newest to the oldest)
FlushResultsReversed(recs, n, itv) ==
    [i \in 1 .. n |->
        Result(FlushScoreKey(recs[n + 1 - i].ts, itv), recs[n + 1 - i].ts,
               recs[n + 1 - i].ids)]

\* the results the flush puts for the first n firing records, in list order
FlushResults(recs, n, itv) ==
    [i \in 1 .. n |->
        Result(FlushScoreKey(recs[i].ts, itv), recs[i].ts, recs[i].ids)]

\* (variant: the terminal marker forgotten)
FlushOutputNoMarker(recs, itv) == FlushResults(recs, Len(recs), itv)

\* what the flush pass puts on the outbound queue when no score fails
FlushOutput(recs, itv) ==
    Append(FlushResults(recs, Len(recs), itv), DoneMarker)

\* loop top: "if self.task_done == True and empty_flag": the deferred pass
WorkerFlush ==
    /\ pc = "top"
    /\ ~SeesStop(stopped)
    /\ FlushDue(task_done, empty_flag)
    /\ LET n == Scorable(timestamps, mem_pool, interval) IN
        IF n = Len(timestamps)
        THEN /\ output_queue' = output_queue \o FlushOutput(timestamps, interval)
             /\ out_log' = out_log \o FlushOutput(timestamps, interval)
             /\ task_done' = FALSE
             /\ pc' = "poll"
             /\ UNCHANGED fault
        ELSE /\ output_queue' = output_queue \o FlushResults(timestamps, n, interval)
             /\ out_log' = out_log \o FlushResults(timestamps, n, interval)
             /\ pc' = "crashed"
             /\ fault' = "KeyError"
             /\ UNCHANGED task_done
    /\ UNCHANGED <<cfgVars, input_queue, frame_stack, extra_stack, timestamps,
                   last_milli, poolVars, stopped, empty_flag, apiVars>>

\* loop top with neither flag pattern set: go on to poll the inbound queue
WorkerIdle ==
    /\ pc = "top"
    /\ ~SeesStop(stopped)
    /\ ~FlushDue(task_done, empty_flag)
    /\ pc' = "poll"
    /\ UNCHANGED <<cfgVars, input_queue, output_queue, frame_stack,
                   extra_stack, timestamps, last_milli, poolVars, stopped,
                   task_done, empty_flag, fault, apiVars, out_log>>

\* input_queue.get(timeout=1) raises queue.Empty: continue
PollEmpty ==
    /\ pc = "poll"
    /\ input_queue = <<>>
    /\ pc' = "top"
    /\ UNCHANGED <<cfgVars, input_queue, output_queue, frame_stack,
                   extra_stack, timestamps, last_milli, poolVars, stopped,
                   task_done, empty_flag, fault, apiVars, out_log>>

\* the sentinel: empty_flag = True; continue
PollDone ==
    /\ pc = "poll"
    /\ input_queue # <<>>
    /\ Head(input_queue).kind = "Done"
    /\ input_queue' = Tail(input_queue)
    /\ empty_flag' = TRUE
    /\ pc' = "top"
    /\ UNCHANGED <<cfgVars, output_queue, frame_stack, extra_stack,
                   timestamps, last_milli, poolVars, stopped, task_done,
                   fault, apiVars, out_log>>

\* outcomes of the opaque calls of one firing cycle
CycleOutcomes == {"ok", "detector", "update"}

\* a frame item: push, trim, and one firing cycle when the scheduler fires
PollItem ==
    /\ pc = "poll"
    /\ input_queue # <<>>
    /\ Head(input_queue).kind = "frame"
    /\ input_queue' = Tail(input_queue)
    /\ LET item == Head(input_queue)
           fs == LastN(Append(frame_stack, item.frame), frame_buffer_numbers)
           es == LastN(Append(extra_stack, Extra(item.millis, item.boxes, item.ids)),
                       frame_buffer_numbers)
       IN
        /\ frame_stack' = fs
        /\ extra_stack' = es
        /\ IF ~ShouldFire(Len(fs), item.millis, last_milli, interval,
                          frame_buffer_numbers)
           THEN /\ pc' = "top"
                /\ UNCHANGED <<last_milli, timestamps, poolVars, fault,
                               output_queue, out_log>>
           ELSE
            LET center == es[CenterIndex(frame_buffer_numbers) + 1]
                key == UpdateKey(center.millis, interval)
                skey == RealtimeScoreKey(center.millis, interval)
                pool == PoolAfterUpdate(mem_pool, key)
            IN
             /\ last_milli' = item.millis
             /\ IF NoPersons(center.boxes)
                THEN /\ pc' = "top"
                     /\ UNCHANGED <<timestamps, poolVars, fault,
                                    output_queue, out_log>>
                ELSE \E outcome \in CycleOutcomes :
                      IF outcome # "ok"
                      THEN /\ pc' = "crashed"
                           /\ fault' = outcome
                           /\ UNCHANGED <<timestamps, poolVars, output_queue,
                                          out_log>>
                      ELSE
                       /\ mem_pool' = pool
                       /\ predictor_timestamps' = Append(predictor_timestamps, key)
                       /\ IF realtime
                          THEN IF ScoreFound(pool, skey)
                               THEN /\ output_queue' = Append(output_queue,
                                          Result(skey, center.millis, center.ids))
                                    /\ out_log' = Append(out_log,
                                          Result(skey, center.millis, center.ids))
                                    /\ pc' = "top"
                                    /\ UNCHANGED <<timestamps, fault>>
                               ELSE /\ pc' = "crashed"
                                    /\ fault' = "KeyError"
                                    /\ UNCHANGED <<timestamps, output_queue,
                                                   out_log>>
                          ELSE /\ timestamps' = Append(timestamps,
                                          Record(center.millis, center.ids))
                               /\ pc' = "top"
                               /\ UNCHANGED <<fault, output_queue, out_log>>
    /\ UNCHANGED <<cfgVars, stopped, task_done, empty_flag, apiVars>>

(* ------------------------------ specification ------------------------- *)
Next ==
    \/ AddFrame
    \/ AddDone
    \/ ComputePrediction
    \/ Terminate
    \/ Stop
    \/ JoinReturns
    \/ Read
    \/ WorkerStopped
    \/ WorkerFlush
    \/ WorkerIdle
    \/ PollEmpty
    \/ PollDone
    \/ PollItem

Spec == Init /\ [][Next]_vars

\* the worker fed by a caller whose timestamps are not in order, and never
\* stopped
NextJitter ==
    \/ AddFrameJitter
    \/ AddDone
    \/ ComputePrediction
    \/ WorkerFlush
    \/ WorkerIdle
    \/ PollEmpty
    \/ PollDone
    \/ PollItem

SpecJitter == Init /\ [][NextJitter]_vars

\* the worker constructed with the scenario's configuration; no frame has
\* been handed in yet (sent_millis below the first timestamp)
InitScenario ==
    /\ realtime \in BOOLEAN
    /\ frame_buffer_numbers = ScenarioFrameNum * FRAME_SAMPLE_RATE
    /\ interval = IntervalOf(ScenarioDetectRate)
    /\ input_queue = <<>>
    /\ output_queue = <<>>
    /\ frame_stack = <<>>
    /\ extra_stack = <<>>
    /\ timestamps = <<>>
    /\ last_milli = 0
    /\ mem_pool = {}
    /\ predictor_timestamps = <<>>
    /\ stopped = FALSE
    /\ task_done = FALSE
    /\ empty_flag = FALSE
    /\ pc = "top"
    /\ fault = "none"
    /\ main_pc = "idle"
    /\ stop_returns = 0
    /\ sent_millis = -1
    /\ sent_done = FALSE
    /\ call_result = "none"
    /\ read_result = NoResult
    /\ out_log = <<>>

\* the worker fed the scenario's frames, and never stopped
NextScenario ==
    \/ AddFrameScenario
    \/ AddDone
    \/ ComputePrediction
    \/ Read
    \/ WorkerFlush
    \/ WorkerIdle
    \/ PollEmpty
    \/ PollDone
    \/ PollItem

SpecScenario == InitScenario /\ [][NextScenario]_vars

\* the worker process keeps running while it has a step to take, and a join
\* returns once the process it waits for has ended
WorkerStep ==
    \/ WorkerStopped
    \/ WorkerFlush
    \/ WorkerIdle
    \/ PollEmpty
    \/ PollDone
    \/ PollItem

\* the whole worker with a producer of periodic frames, under the scheduling
\* the operating system gives the worker process and the joining thread
NextFair ==
    \/ AddFramePeriodic
    \/ AddDone
    \/ ComputePrediction
    \/ Terminate
    \/ Stop
    \/ JoinReturns
    \/ Read
    \/ WorkerStep

SpecFair ==
    Init /\ [][NextFair]_vars /\ WF_vars(WorkerStep) /\ WF_vars(JoinReturns)

(* ------------------------------ properties ---------------------------- *)
\* the worker takes a frame item off the inbound queue in this step
FrameDequeued ==
    /\ pc = "poll" /\ pc' # "poll"
    /\ input_queue # <<>>
    /\ Head(input_queue).kind = "frame"

\* the scheduler fires in this step: it is the only place last_milli is set
Fired == last_milli' # last_milli

\* C1 - Window invariant: between loop iterations the frame buffer holds at
\* most frame_buffer_numbers entries and is exactly as long as the metadata
\* buffer.
C1_WindowInvariant ==
    /\ Len(frame_stack) <= frame_buffer_numbers
    /\ Len(frame_stack) = Len(extra_stack)

\* a full window in batch mode after two firings: more frames than the
\* capacity have been pushed, so the trim has dropped some
C1_Witness ==
    /\ Len(frame_stack) = frame_buffer_numbers
    /\ Len(timestamps) >= 2

\* C2 - Firing threshold: a dequeued frame item fires if and only if the
\* window is full after the push and the item's timestamp is strictly greater
\* than last_milli + interval; firing sets last_milli to that timestamp.
C2_FiringThreshold ==
    [][FrameDequeued =>
        /\ Fired <=> /\ Len(frame_stack') >= frame_buffer_numbers
                     /\ Head(input_queue).millis > last_milli + interval
        /\ Fired => last_milli' = Head(input_queue).millis]_vars

\* after a firing, an item whose timestamp is exactly last_milli + interval
\* has been pushed into the full window and has not fired
C2_Witness ==
    /\ last_milli > 0
    /\ Len(extra_stack) = frame_buffer_numbers
    /\ extra_stack[Len(extra_stack)].millis = last_milli + interval
    /\ input_queue = <<>>

\* C3 - Monotonic firing: last_milli never decreases, and every firing moves
\* it by strictly more than interval, so consecutive firings are more than
\* one interval apart.
C3_MonotonicFiring ==
    [][/\ last_milli' >= last_milli
       /\ Fired => last_milli' > last_milli + interval]_vars

\* two firings with persons at the center have happened, the second one
\* after out-of-order timestamps
C3_Witness ==
    /\ Len(predictor_timestamps) >= 2
    /\ last_milli > 2 * interval
    /\ \E i \in 1 .. Len(extra_stack) - 1 :
        extra_stack[i].millis > extra_stack[i + 1].millis

\* C4 - Cache write-once: with non-decreasing inbound timestamps (the frames
\* of Spec), update_feature is never called with a bucket key an earlier
\* firing already wrote: ava_predictor.timestamps, the keys in write order,
\* holds no key twice.
C4_CacheWriteOnce ==
    \A i, j \in 1 .. Len(predictor_timestamps) :
        i # j => predictor_timestamps[i] # predictor_timestamps[j]

\* the values of the kind "result" in a log
ResultsOf(log) == SelectSeq(log, LAMBDA r : r.kind = "result")

\* the cache keys the worker has written so far
WrittenKeys == {predictor_timestamps[i] : i \in 1 .. Len(predictor_timestamps)}

\* C5 - Update precedes score: no score ever looks up a cache key that is
\* absent (the worker never dies of a KeyError), and every prediction put on
\* the outbound queue was scored for a key that update_feature wrote before.
C5_UpdatePrecedesScore ==
    /\ fault # "KeyError"
    /\ \A i \in 1 .. Len(out_log) :
        out_log[i].kind = "result" =>
            /\ out_log[i].pred \in WrittenKeys
            /\ out_log[i].pred = Bucket(out_log[i].ts, interval)

\* a deferred pass in batch mode has scored two firing records
C5_Witness ==
    /\ ~realtime
    /\ Len(timestamps) = 2
    /\ Len(ResultsOf(out_log)) = 2

\* the center entry of the window after this step's push
CenterAfter == extra_stack'[CenterIndex(frame_buffer_numbers) + 1]

\* this step is a firing that ran to its end: window full, threshold passed,
\* persons at the center, and neither the detector nor the update raised
SuccessfulFiring ==
    /\ FrameDequeued
    /\ Fired
    /\ CenterAfter.boxes
    /\ fault' = "none"

\* C6 - Realtime mode isolation: in realtime mode a successful firing puts
\* exactly one (predictions, center_timestamp, ids) result on the outbound
\* queue within the step that dequeued the item, and no other step puts
\* anything.
C6_RealtimeIsolation ==
    [][realtime =>
        IF SuccessfulFiring
        THEN /\ out_log' = Append(out_log,
                    Result(Bucket(CenterAfter.millis, interval),
                           CenterAfter.millis, CenterAfter.ids))
             /\ output_queue' = Append(output_queue, out_log'[Len(out_log')])
             /\ pc' = "top"
        ELSE out_log' = out_log]_vars

\* realtime mode after a successful firing and a later item that put
\* nothing: the window's newest item is not the one that fired last
C6_Witness ==
    /\ realtime
    /\ Len(out_log) = 1
    /\ Len(extra_stack) = frame_buffer_numbers
    /\ extra_stack[Len(extra_stack)].millis # last_milli
    /\ pc = "top"

\* the worker passes the loop top with both flush conditions set
FlushStep ==
    /\ pc = "top" /\ pc' # "top"
    /\ ~stopped
    /\ task_done /\ empty_flag

\* the result owed to one firing record
ResultOfRecord(rec) == Result(Bucket(rec.ts, interval), rec.ts, rec.ids)

\* C7 - Batch mode isolation: in batch mode nothing is put on the outbound
\* queue except by a flush, and a flush puts exactly one result per recorded
\* firing record, in the order of the records, followed by exactly one
\* "done" marker.
C7_BatchIsolation ==
    [][~realtime =>
        IF FlushStep
        THEN /\ out_log' = out_log
                    \o [i \in 1 .. Len(timestamps) |-> ResultOfRecord(timestamps[i])]
                    \o <<DoneMarker>>
             /\ timestamps' = timestamps
        ELSE out_log' = out_log]_vars

\* batch mode after one flush of two firing records
C7_Witness ==
    /\ ~realtime
    /\ Len(timestamps) = 2
    /\ Len(out_log) = 3
    /\ out_log[3] = DoneMarker

\* C8 - firing records are consumed exactly once: in batch mode the outbound
\* queue never receives more results than there are firing records, however
\* often compute_prediction() is called after the sentinel.
C8_ConsumedOnce ==
    ~realtime => Len(ResultsOf(out_log)) <= Len(timestamps)

\* i and j are positions of two results of the same flush pass
SameFlush(i, j) ==
    /\ i < j
    /\ \A k \in i .. j : out_log[k].kind = "result"

C10_InvalidMode ==
    realtime =>
        /\ ~task_done
        /\ call_result \in {"none", "AssertionError"}
        /\ DoneCount(out_log) = 0

\* realtime mode, compute_prediction() has been called and has failed, and
\* the worker has passed the loop top after the sentinel without flushing
C10_Witness ==
    /\ realtime
    /\ call_result = "AssertionError"
    /\ empty_flag
    /\ pc = "poll"

\* the worker process has ended
WorkerEnded == pc \in {"exited", "crashed"}

\* what add_task() and read() may do once they are no-ops: nothing is put on
\* the inbound queue, nothing is taken off the outbound queue, and read()
\* hands back the empty result
ShutDownNoOps ==
    /\ Len(input_queue') <= Len(input_queue)
    /\ Len(output_queue') >= Len(output_queue)
    /\ read_result' \in {read_result, NoResult}

\* C11 (as stated) - Idempotent shutdown: every call of stop() returns (it
\* neither raises nor hangs), and once a stop() has returned add_task() puts
\* nothing on the inbound queue and read() returns the empty result without
\* removing anything from the outbound queue.
C11_StopIdempotent ==
    /\ (main_pc = "joining") ~> (main_pc = "idle")
    /\ [][stop_returns >= 1 => ShutDownNoOps]_vars

\* C11 (amended) - Idempotent shutdown after terminate(): once the stop flag
\* is set, every call of stop(), the one inside terminate() and any later
\* one, returns; and from then on add_task() puts nothing on the inbound
\* queue and read() returns the empty result without removing anything.
C11_StopAfterTerminate ==
    /\ (stopped /\ main_pc = "joining") ~> (main_pc = "idle")
    /\ [][stopped => ShutDownNoOps]_vars

\* terminate() and a second stop() have both returned; the consumer had read
\* the one prediction of a flush before, and its read() after the shutdown
\* came back empty with the "done" marker still on the outbound queue
C11_Witness ==
    /\ stopped
    /\ stop_returns = 2
    /\ main_pc = "idle"
    /\ ~realtime
    /\ Len(out_log) = 2
    /\ output_queue = <<DoneMarker>>
    /\ read_result = NoResult

\* C12 - Cooperative stop: once the stop flag is set the worker eventually
\* leaves its loop, whatever it was doing; and after it has observed the
\* flag it dequeues no further inbound item (its window and sentinel flag
\* stay as they are) and puts nothing further on the outbound queue.
C12_CooperativeStop ==
    /\ stopped ~> WorkerEnded
    /\ [][pc = "exited" =>
            /\ pc' = "exited"
            /\ input_queue' \in {input_queue, <<>>}
            /\ UNCHANGED <<frame_stack, extra_stack, empty_flag, timestamps,
                           last_milli, poolVars, out_log>>]_vars

\* the worker has observed the flag and returned while an inbound item was
\* still waiting and the control thread is in join()
C12_Witness ==
    /\ stopped
    /\ pc = "exited"
    /\ main_pc = "joining"
    /\ input_queue # <<>>

\* the results put on the outbound queue so far and not yet read
Unread == SubSeq(out_log, Len(out_log) - Len(output_queue) + 1, Len(out_log))

\* C13 - Non-blocking ordered read: read() can always be taken (it never
\* waits); the outbound queue holds the results not yet read in the order
\* they were put, and a read that removes a result happens only when the
\* worker is not stopped, removes the oldest one and returns it, so results
\* reach the consumer in the order the worker put them; on an empty queue
\* read() returns the empty result.
C13_OrderedRead ==
    /\ [](ENABLED Read)
    /\ [][/\ output_queue = Unread
          /\ Len(output_queue') < Len(output_queue) =>
                /\ ~stopped
                /\ read_result' = out_log[Len(out_log) - Len(output_queue) + 1]
                /\ output_queue' = Tail(output_queue)
          /\ (output_queue = <<>> /\ read_result' # read_result) =>
                read_result' = NoResult]_vars

\* the consumer has read a flush's prediction and then its "done" marker,
\* and nothing is left on the outbound queue
C13_Witness ==
    /\ ~stopped
    /\ Len(out_log) = 2
    /\ output_queue = <<>>
    /\ out_log[1] # DoneMarker
    /\ read_result = DoneMarker

\* C14 - Empty-detection skip: when an item is dequeued, the firing condition
\* holds (window full, timestamp beyond last_milli + interval) and the
\* window's center entry has no person boxes, the cycle writes nothing to
\* the feature cache, records no firing record, puts nothing on the outbound
\* queue and ends normally, yet last_milli is moved to the item's timestamp.
C14_EmptySkip ==
    [][(/\ FrameDequeued
        /\ Len(frame_stack') >= frame_buffer_numbers
        /\ Head(input_queue).millis > last_milli + interval
        /\ ~CenterAfter.boxes) =>
            /\ last_milli' = Head(input_queue).millis
            /\ UNCHANGED <<poolVars, timestamps, output_queue, out_log, fault>>
            /\ pc' = "top"]_vars

\* the worker has fired once on a center without person boxes: last_milli
\* has moved, nothing was written, recorded or put, and the loop goes on
C14_Witness ==
    /\ last_milli > 0
    /\ Len(extra_stack) = frame_buffer_numbers
    /\ extra_stack[Len(extra_stack)].millis = last_milli
    /\ ~extra_stack[CenterIndex(frame_buffer_numbers) + 1].boxes
    /\ predictor_timestamps = <<>>
    /\ timestamps = <<>>
    /\ out_log = <<>>
    /\ pc = "top"

\* a flush pass starts (and, being one step, puts its "done" marker)
FlushStarts == DoneCount(out_log') > DoneCount(out_log)

\* the sentinel has been handed in and taken off the inbound queue
SentinelDequeued ==
    /\ sent_done
    /\ \A i \in 1 .. Len(input_queue) : input_queue[i] # DoneTask

\* every frame handed in has been taken off the inbound queue and pushed
\* into the window, the last one handed in being the window's newest
AllFramesProcessed ==
    /\ \A i \in 1 .. Len(input_queue) : input_queue[i].kind # "frame"
    /\ IF extra_stack = <<>>
       THEN sent_millis = 0
       ELSE extra_stack[Len(extra_stack)].millis = sent_millis

C16_FlushLiveness ==
    \A n \in 0 .. MaxFlushes - 1 :
        (~realtime /\ empty_flag /\ task_done /\ DoneCount(out_log) = n)
            ~> (stopped \/ (DoneCount(out_log) = n + 1 /\ ~task_done))

\* batch mode, never stopped: the sentinel was dequeued, the flush has put
\* its "done" marker and task_done is false again
C16_Witness ==
    /\ ~realtime
    /\ ~stopped
    /\ empty_flag
    /\ call_result = "ok"
    /\ DoneCount(out_log) = 1
    /\ ~task_done

\* C17 (as stated) - Cycle failure is contained: when the detector or the
\* feature update has raised during a firing cycle, the worker loop has not
\* terminated: the worker is still at its loop top or polling.
C17_FailureContained ==
    fault \in {"detector", "update"} => pc \in {"top", "poll"}

\* a firing cycle fails in the detector or in the feature update
CycleFails == fault = "none" /\ fault' \in {"detector", "update"}

\* C18 (as stated) - State unchanged on cycle failure: a firing cycle that
\* fails in the detector or in the feature update leaves last_milli and the
\* pending firing records as they were before the cycle.
C18_FailureLeavesState ==
    [][CycleFails =>
        /\ last_milli' = last_milli
        /\ timestamps' = timestamps]_vars

\* how many pushes before the triggering item the center entry arrived
CenterLag == frame_buffer_numbers - 1 - frame_buffer_numbers \div 2

\* the entry pushed CenterLag pushes before the item dequeued in this step
PushedBefore ==
    IF CenterLag = 0
    THEN Extra(Head(input_queue).millis, Head(input_queue).boxes,
               Head(input_queue).ids)
    ELSE extra_stack[Len(extra_stack) - CenterLag + 1]

\* C19 - Center selection: at every firing the entry at index capacity // 2
\* of the trimmed window is the item that arrived capacity - 1 -
\* capacity // 2 pushes before the triggering item, and it is that entry
\* whose person boxes decide the skip, whose timestamp is quantized into
\* the cache key written, and whose timestamp and ids go into the firing
\* record or the result.
C19_CenterSelection ==
    [][(FrameDequeued /\ Fired) =>
        /\ extra_stack'[frame_buffer_numbers \div 2 + 1] = PushedBefore
        /\ ~PushedBefore.boxes => UNCHANGED <<poolVars, timestamps, out_log>>
        /\ (PushedBefore.boxes /\ pc' = "top") =>
              /\ predictor_timestamps' = Append(predictor_timestamps,
                      Bucket(PushedBefore.millis, interval))
              /\ realtime => out_log' = Append(out_log,
                      Result(Bucket(PushedBefore.millis, interval),
                             PushedBefore.millis, PushedBefore.ids))
              /\ ~realtime => timestamps' = Append(timestamps,
                      Record(PushedBefore.millis, PushedBefore.ids))]_vars

\* one firing has written the cache key of the window's middle entry, which
\* differs from the keys of the entries before and after it
C19_Witness ==
    /\ Len(extra_stack) = frame_buffer_numbers
    /\ extra_stack[Len(extra_stack)].millis = last_milli
    /\ Len(predictor_timestamps) = 1
    /\ predictor_timestamps[1] =
          Bucket(extra_stack[frame_buffer_numbers \div 2 + 1].millis, interval)
    /\ predictor_timestamps[1] # Bucket(extra_stack[1].millis, interval)
    /\ predictor_timestamps[1] # Bucket(last_milli, interval)

\* the timestamps of the window's entries, oldest first
WindowMillis == [i \in 1 .. Len(extra_stack) |-> extra_stack[i].millis]

\* the window holds at least frame_buffer_numbers frames (line 304)
WindowFull == Len(frame_stack) >= frame_buffer_numbers

\* the timestamp of the entry at index capacity // 2 of a full window
CenterMillis == extra_stack[frame_buffer_numbers \div 2 + 1].millis

\* C20 (as stated) - Scenario, capacity 4 and interval 40: after the entries
\* 0, 10, 20, 30 have been pushed the window is not yet full; after 40 has
\* been pushed as well it is full and its center is the entry of timestamp 10.
C20_ScenarioAsStated ==
    /\ WindowMillis = <<0, 10, 20, 30>> => ~WindowFull
    /\ (extra_stack # <<>> /\ extra_stack[Len(extra_stack)].millis = 40) =>
          /\ WindowFull
          /\ CenterMillis = 10

\* C20 (amended) - Scenario, capacity 4 and interval 40: after the entries
\* 0, 10, 20, 30 have been pushed the window is already full (4 >= 4) with
\* the entry of timestamp 20 at its center; after 40 has been pushed as well
\* the window is 10, 20, 30, 40, still full, and its center is the entry of
\* timestamp 30.
C20_Scenario ==
    /\ frame_buffer_numbers = 4 /\ interval = 40
    /\ WindowMillis = <<0, 10, 20, 30>> =>
          /\ WindowFull
          /\ CenterMillis = 20
    /\ (extra_stack # <<>> /\ extra_stack[Len(extra_stack)].millis = 40) =>
          /\ WindowMillis = <<10, 20, 30, 40>>
          /\ WindowFull
          /\ CenterMillis = 30

\* the worker has pushed 0, 10, 20, 30 and 40 and is back at its loop top
C20_Witness ==
    /\ WindowMillis = <<10, 20, 30, 40>>
    /\ Len(frame_stack) = 4
    /\ pc = "top"

====
